---- MODULE Spec2Model ----
(***************************************************************************)
(* geojson2h3: conversion between GeoJSON polygon features and sets of H3  *)
(* hexagon indexes.  The module models the five public functions of        *)
(* src/geojson2h3-1-2-0-1.js and their private helpers.  The h3 library    *)
(* they call is the environment: its answers are drawn in Init and held in *)
(* the variable h3.                                                        *)
(***************************************************************************)
EXTENDS Integers, Sequences, FiniteSets, TLC

VARIABLES
    feature,        \* argument of featureToH3Set: a Feature or FeatureCollection
    resolution,     \* argument of featureToH3Set
    options,        \* argument of featureToH3Set (may be omitted)
    h3Index,        \* argument of h3ToFeature
    hexagons,       \* argument of the h3SetTo... functions
    properties,     \* argument of h3ToFeature / h3SetToFeature / h3SetToMultiPolygonFeature
    getProperties,  \* argument of h3SetToFeatureCollection (may be omitted)
    h3,             \* the h3 library: what its functions answer
    called,         \* the public function called last ("none" before any call)
    ret             \* what that call returned or threw, and the library calls it made

vars == <<feature, resolution, options, h3Index, hexagons, properties, getProperties, h3, called, ret>>

-----------------------------------------------------------------------------
(* Bounds of the model *)

MaxFeatures == 2    \* features in a FeatureCollection
MaxPolygons == 2    \* polygons in a MultiPolygon
MaxHexagons == 3    \* hexagons in an input set
MaxOutlines == 2    \* outlines h3.h3SetToMultiPolygon answers for one set

-----------------------------------------------------------------------------
(* Program constants *)

FEATURE == "Feature"
FEATURE_COLLECTION == "FeatureCollection"
POLYGON == "Polygon"
MULTI_POLYGON == "MultiPolygon"

-----------------------------------------------------------------------------
(* JavaScript values *)

undefined == "undefined"

\* An argument that was not passed, and the default {} it is replaced by.
NoOptions == [given |-> FALSE, ensureOutput |-> undefined]
EmptyObject == [given |-> TRUE, ensureOutput |-> undefined]

\* A properties object is the set of its <<key, value>> pairs; {} has none.
NoProperties == [given |-> FALSE, object |-> {}]
NoGetProperties == [given |-> FALSE, fn |-> undefined]

\* The values of JavaScript that count as false in a condition.
Falsy == {undefined, "false", "null", "0", ""}
Truthy(v) == v \notin Falsy

\* A number that is a quotient of two integers, kept exact: <<n, d>> in lowest
\* terms with d > 0.
RECURSIVE Gcd(_, _)
Gcd(a, b) == IF b = 0 THEN a ELSE Gcd(b, a % b)

Abs(n) == IF n < 0 THEN -n ELSE n

Divide(n, d) ==
    LET g == Gcd(Abs(n), d) IN
    IF g = 0 THEN <<0, 0>> ELSE <<n \div g, d \div g>>

SeqsUpTo(S, n) == UNION {[1..k -> S] : k \in 0..n}

-----------------------------------------------------------------------------
(* Private utilities *)

\* Array.from(new Set(out)): the distinct elements in insertion order; a Set
\* built from null is empty.
RECURSIVE ArrayFromSet(_)
ArrayFromSet(out) ==
    IF out = <<>> THEN <<>>
    ELSE LET n == Len(out)
             init == ArrayFromSet(SubSeq(out, 1, n - 1))
         IN  IF \E k \in DOMAIN init : init[k] = out[n] THEN init
             ELSE Append(init, out[n])

\* The loop of flatten with unshift for push: later arrays go in front.
RECURSIVE flattenLoop_unshift(_, _, _)
flattenLoop_unshift(arrays, i, out) ==
    IF i > Len(arrays) THEN out
    ELSE IF ~out.null
         THEN flattenLoop_unshift(arrays, i + 1,
                [null |-> FALSE, items |-> arrays[i] \o out.items])
         ELSE flattenLoop_unshift(arrays, i + 1, [null |-> FALSE, items |-> arrays[i]])

\* The loop of flatten from index i on; out is [null, items].
RECURSIVE flattenLoop(_, _, _)
flattenLoop(arrays, i, out) ==
    IF i > Len(arrays) THEN out
    ELSE IF ~out.null
         THEN flattenLoop(arrays, i + 1, [null |-> FALSE, items |-> out.items \o arrays[i]])
         ELSE flattenLoop(arrays, i + 1, [null |-> FALSE, items |-> arrays[i]])

\* flatten without the Set: the concatenation as it is.
flatten_noSet(arrays) ==
    LET out == flattenLoop(arrays, 1, [null |-> TRUE, items |-> <<>>]) IN
    [value |-> out.items, out |-> out]

\* flatten returns the deduplicated array; out is the first array of the list
\* as the loop leaves it (the array it pushed into), or null.
flatten(arrays) ==
    LET out == flattenLoop(arrays, 1, [null |-> TRUE, items |-> <<>>]) IN
    [value |-> ArrayFromSet(out.items), out |-> out]

RECURSIVE centroidLoop(_, _, _)
centroidLoop(loop, i, acc) ==
    IF i > Len(loop) THEN acc
    ELSE centroidLoop(loop, i + 1,
            [lngSum |-> acc.lngSum + loop[i][1],
             latSum |-> acc.latSum + loop[i][2],
             count  |-> acc.count + 1])

\* [lng, lat] of the mean of the vertices of the first loop.
centroid(polygon) ==
    LET loop == polygon[1]
        acc  == centroidLoop(loop, 1, [lngSum |-> 0, latSum |-> 0, count |-> 0])
    IN  <<Divide(acc.lngSum, acc.count), Divide(acc.latSum, acc.count)>>

-----------------------------------------------------------------------------
(* The h3 library, as the functions below call it.  A cell is <<resolution,  *)
(* n>>: an index names one cell of the grid at one resolution.               *)

\* h3.polyfill(polygon, resolution, true): the cells of that resolution the
\* library finds in the polygon, in the order (and with the repeats) it gives.
h3_polyfill(polygon, res, isGeoJson) ==
    [k \in 1..Len(h3.polyfill[polygon]) |-> <<res, h3.polyfill[polygon][k]>>]

\* h3.geoToH3(lat, lng, resolution): the cell of that resolution at the point.
h3_geoToH3(lat, lng, res) == <<res, h3.geoToH3[<<lat, lng>>]>>

\* h3.h3ToGeoBoundary(h3Index, formatAsGeoJson): the boundary loop of the cell.
h3_h3ToGeoBoundary(index, formatAsGeoJson) ==
    [boundaryOf |-> index, geoJson |-> Truthy(formatAsGeoJson)]

\* h3.h3SetToMultiPolygon(hexagons, true): the outlines of the set; none for
\* the empty set.
h3_h3SetToMultiPolygon(hexs, formatAsGeoJson) ==
    IF hexs = <<>> THEN <<>> ELSE h3.h3SetToMultiPolygon

-----------------------------------------------------------------------------
(* Outcomes of a call: a returned value or a thrown Error, with the library  *)
(* calls made on the way, the arrays the last flatten was given and the      *)
(* first of them as flatten left it.                                         *)

NullOut == [null |-> TRUE, items |-> <<>>]

Return(v, calls, arrays, out) ==
    [threw |-> FALSE, error |-> "", value |-> v, calls |-> calls,
     arrays |-> arrays, out |-> out]

Throw(message, calls) ==
    [threw |-> TRUE, error |-> message, value |-> <<>>, calls |-> calls,
     arrays |-> <<>>, out |-> NullOut]

NoFeaturesFound == "No features found"
UnhandledType == "Unhandled type"
UnhandledGeometryType == "Unhandled geometry type"

-----------------------------------------------------------------------------
(* featureToH3Set *)

\* The callback with the centroid handed to geoToH3 as (lng, lat).
polygonToH3Set_lngLat(polygon, res, opts) ==
    LET result == h3_polyfill(polygon, res, "true") IN
    IF Len(result) # 0 \/ ~Truthy(opts.ensureOutput)
    THEN [value |-> result, calls |-> <<"polyfill">>]
    ELSE LET ref == centroid(polygon)
             lng == ref[1]
             lat == ref[2]
         IN  [value |-> <<h3_geoToH3(lng, lat, res)>>,
              calls |-> <<"polyfill", "geoToH3">>]

\* The callback of polygons.map: the cells of one polygon.
polygonToH3Set(polygon, res, opts) ==
    LET result == h3_polyfill(polygon, res, "true") IN
    IF Len(result) # 0 \/ ~Truthy(opts.ensureOutput)
    THEN [value |-> result, calls |-> <<"polyfill">>]
    ELSE LET ref == centroid(polygon)
             lng == ref[1]
             lat == ref[2]
         IN  [value |-> <<h3_geoToH3(lat, lng, res)>>,
              calls |-> <<"polyfill", "geoToH3">>]

\* polygons.map(...) from index i on; acc is [arrays, calls].
RECURSIVE mapPolygons(_, _, _, _, _)
mapPolygons(polygons, res, opts, i, acc) ==
    IF i > Len(polygons) THEN acc
    ELSE LET r == polygonToH3Set(polygons[i], res, opts) IN
         mapPolygons(polygons, res, opts, i + 1,
            [arrays |-> Append(acc.arrays, r.value), calls |-> acc.calls \o r.calls])

RECURSIVE featureToH3Set(_, _, _)
RECURSIVE mapFeatures(_, _, _, _)

\* The map with a callback that catches what featureToH3Set throws and
\* returns no cells for that feature.
RECURSIVE mapFeatures_catch(_, _, _, _)
mapFeatures_catch(features, res, i, acc) ==
    IF i > Len(features) THEN acc
    ELSE LET r == featureToH3Set(features[i], res, NoOptions) IN
         mapFeatures_catch(features, res, i + 1,
            [threw  |-> FALSE,
             error  |-> "",
             arrays |-> Append(acc.arrays, IF r.threw THEN <<>> ELSE r.value),
             calls  |-> acc.calls \o r.calls])

\* features.map(feature => featureToH3Set(feature, resolution)) from index i
\* on; a throw of the callback ends the map. acc is [threw, error, arrays, calls].
mapFeatures(features, res, i, acc) ==
    IF i > Len(features) \/ acc.threw THEN acc
    ELSE LET r == featureToH3Set(features[i], res, NoOptions) IN
         mapFeatures(features, res, i + 1,
            [threw  |-> r.threw,
             error  |-> r.error,
             arrays |-> IF r.threw THEN acc.arrays ELSE Append(acc.arrays, r.value),
             calls  |-> acc.calls \o r.calls])

\* featureCollectionToH3Set with the test (!features || !features.length).
featureCollectionToH3Set_noLength(featureCollection, res) ==
    LET features == featureCollection.features IN
    IF ~features.given \/ Len(features.items) = 0 THEN Throw(NoFeaturesFound, <<>>)
    ELSE LET m == mapFeatures(features.items, res, 1,
                      [threw |-> FALSE, error |-> "", arrays |-> <<>>, calls |-> <<>>])
             f == flatten(m.arrays)
         IN  IF m.threw THEN Throw(m.error, m.calls)
             ELSE Return(f.value, m.calls, m.arrays, f.out)

featureCollectionToH3Set(featureCollection, res) ==
    LET features == featureCollection.features IN
    IF ~features.given THEN Throw(NoFeaturesFound, <<>>)
    ELSE LET m == mapFeatures(features.items, res, 1,
                      [threw |-> FALSE, error |-> "", arrays |-> <<>>, calls |-> <<>>])
             f == flatten(m.arrays)
         IN  IF m.threw THEN Throw(m.error, m.calls)
             ELSE Return(f.value, m.calls, m.arrays, f.out)

featureToH3Set(feat, res, optionsArg) ==
    LET opts == IF ~optionsArg.given THEN EmptyObject ELSE optionsArg
        type == feat.type
        geometry == feat.geometry
        geometryType == IF geometry.given THEN geometry.type ELSE undefined
    IN  IF type = FEATURE_COLLECTION THEN featureCollectionToH3Set(feat, res)
        ELSE IF type # FEATURE THEN Throw(UnhandledType, <<>>)
        ELSE IF geometryType # POLYGON /\ geometryType # MULTI_POLYGON
             THEN Throw(UnhandledGeometryType, <<>>)
        ELSE LET polygons == IF geometryType = POLYGON THEN <<geometry.coordinates>>
                             ELSE geometry.coordinates
                 m == mapPolygons(polygons, res, opts, 1, [arrays |-> <<>>, calls |-> <<>>])
                 f == flatten(m.arrays)
             IN  Return(f.value, m.calls, m.arrays, f.out)

-----------------------------------------------------------------------------
(* Inputs of featureToH3Set *)

\* Two sample polygons, loops of [lng, lat] vertices closed by a repeat of the
\* first vertex; the second has a hole.
RingA == <<<<0, 0>>, <<2, 0>>, <<2, 4>>, <<0, 4>>, <<0, 0>>>>
RingB == <<<<0, 0>>, <<4, 0>>, <<4, 2>>, <<0, 2>>, <<0, 0>>>>
HoleB == <<<<1, 1>>, <<3, 1>>, <<2, 1>>, <<1, 1>>>>
PolyA == <<RingA>>
PolyB == <<RingB, HoleB>>
Polys == {PolyA, PolyB}

Resolutions == {7, 9}
CellNumbers == {1, 2}

\* Sample answers of h3.polyfill for one polygon, as cell numbers: no cell,
\* one cell, two cells in either order, the same cell twice.
FillAnswers == {<<>>, <<1>>, <<2>>, <<1, 2>>, <<2, 1>>, <<1, 1>>, <<2, 2>>}

OptionsArgs ==
    {NoOptions} \cup {[given |-> TRUE, ensureOutput |-> e] : e \in {"true", "false"}}

NoGeometry == [given |-> FALSE, type |-> undefined, coordinates |-> <<>>]
NoFeatures == [given |-> FALSE, items |-> <<>>]

Geometry(t, c) == [given |-> TRUE, type |-> t, coordinates |-> c]
Feature(t, g) == [type |-> t, geometry |-> g, features |-> NoFeatures]

Geometries ==
    {NoGeometry, Geometry("Point", <<>>)}
    \cup {Geometry(POLYGON, p) : p \in Polys}
    \cup {Geometry(MULTI_POLYGON, c) : c \in SeqsUpTo(Polys, MaxPolygons)}

\* Features, of a supported or an unsupported type and geometry.
Features ==
    {Feature(FEATURE, g) : g \in Geometries}
    \cup {Feature("GeometryCollection", g) : g \in {NoGeometry, Geometry(POLYGON, PolyA)}}

\* The features the sample collections are made of.
CollectionFeatures ==
    {Feature(FEATURE, Geometry(POLYGON, PolyA)),
     Feature(FEATURE, Geometry(POLYGON, PolyB)),
     Feature(FEATURE, Geometry(MULTI_POLYGON, <<PolyB, PolyA>>)),
     Feature(FEATURE, Geometry("Point", <<>>)),
     Feature("GeometryCollection", NoGeometry)}

FeatureCollections ==
    {[type |-> FEATURE_COLLECTION, geometry |-> NoGeometry, features |-> NoFeatures]}
    \cup {[type |-> FEATURE_COLLECTION, geometry |-> NoGeometry,
           features |-> [given |-> TRUE, items |-> fs]] :
            fs \in SeqsUpTo(CollectionFeatures, MaxFeatures)}

\* The polygons of an input.
PolygonsOfGeometry(g) ==
    IF g.type = POLYGON THEN {g.coordinates}
    ELSE IF g.type = MULTI_POLYGON THEN {g.coordinates[k] : k \in DOMAIN g.coordinates}
    ELSE {}

PolygonsOf(f) ==
    PolygonsOfGeometry(f.geometry)
    \cup UNION {PolygonsOfGeometry(f.features.items[k].geometry) :
                    k \in DOMAIN f.features.items}

\* The points the library may be asked about: the centroid of a polygon, as
\* <<lat, lng>> and the other way round.
PointsOf(ps) ==
    UNION {{<<centroid(p)[2], centroid(p)[1]>>, <<centroid(p)[1], centroid(p)[2]>>} :
            p \in ps}

NotCalled == [threw |-> FALSE, error |-> "", value |-> <<>>, calls |-> <<>>,
              arrays |-> <<>>, out |-> NullOut]

\* A call of featureToH3Set to come: its arguments, and the answers of the
\* library for the polygons of the input.
InitFill ==
    /\ feature \in Features \cup FeatureCollections
    /\ resolution \in Resolutions
    /\ options \in OptionsArgs
    /\ \E pf \in [PolygonsOf(feature) -> FillAnswers] :
       \E g \in [PointsOf(PolygonsOf(feature)) -> CellNumbers] :
            h3 = [polyfill |-> pf, geoToH3 |-> g, h3SetToMultiPolygon |-> <<>>]
    /\ h3Index = <<9, 1>>
    /\ hexagons = <<>>
    /\ properties = NoProperties
    /\ getProperties = NoGetProperties
    /\ called = "none"
    /\ ret = NotCalled

CallFeatureToH3Set ==
    /\ called' = "featureToH3Set"
    /\ ret' = featureToH3Set(feature, resolution, options)
    /\ UNCHANGED <<feature, resolution, options, h3Index, hexagons, properties, getProperties, h3>>

-----------------------------------------------------------------------------
(* h3ToFeature, h3SetToFeature, h3SetToMultiPolygonFeature,                  *)
(* h3SetToFeatureCollection                                                  *)

\* The feature h3ToFeature builds.
h3ToFeatureObject(index, props) ==
    LET object == IF ~props.given THEN {} ELSE props.object
        coordinates == <<h3_h3ToGeoBoundary(index, "true")>>
    IN  [type |-> FEATURE,
         id |-> index,
         properties |-> object,
         geometry |-> [type |-> POLYGON, coordinates |-> coordinates]]

h3ToFeature(index, props) ==
    Return(h3ToFeatureObject(index, props), <<"h3ToGeoBoundary">>, <<>>, NullOut)

\* h3SetToFeature with the test polygons.length > 0 for a MultiPolygon.
h3SetToFeature_anyOutline(hexs, props) ==
    LET object == IF ~props.given THEN {} ELSE props.object
        polygons == h3_h3SetToMultiPolygon(hexs, "true")
        isMultiPolygon == Len(polygons) > 0
        type == IF isMultiPolygon THEN MULTI_POLYGON ELSE POLYGON
        coordinates == IF isMultiPolygon THEN polygons
                       ELSE IF Len(polygons) > 0 THEN polygons[1] ELSE <<>>
    IN  Return([type |-> FEATURE,
                properties |-> object,
                geometry |-> [type |-> type, coordinates |-> coordinates]],
               <<"h3SetToMultiPolygon">>, <<>>, NullOut)

h3SetToFeature(hexs, props) ==
    LET object == IF ~props.given THEN {} ELSE props.object
        polygons == h3_h3SetToMultiPolygon(hexs, "true")
        isMultiPolygon == Len(polygons) > 1
        type == IF isMultiPolygon THEN MULTI_POLYGON ELSE POLYGON
        coordinates == IF isMultiPolygon THEN polygons
                       ELSE IF Len(polygons) > 0 THEN polygons[1] ELSE <<>>
    IN  Return([type |-> FEATURE,
                properties |-> object,
                geometry |-> [type |-> type, coordinates |-> coordinates]],
               <<"h3SetToMultiPolygon">>, <<>>, NullOut)

\* h3SetToMultiPolygonFeature built on h3SetToFeature: merged outlines,
\* unwrapped when there is one.
h3SetToMultiPolygonFeature_merged(hexs, props) == h3SetToFeature(hexs, props)

h3SetToMultiPolygonFeature(hexs, props) ==
    LET object == IF ~props.given THEN {} ELSE props.object
        coordinates == [k \in 1..Len(hexs) |->
                            <<h3_h3ToGeoBoundary(hexs[k], "{geoJson: true}")>>]
    IN  Return([type |-> FEATURE,
                properties |-> object,
                geometry |-> [type |-> MULTI_POLYGON, coordinates |-> coordinates]],
               [k \in 1..Len(hexs) |-> "h3ToGeoBoundary"], <<>>, NullOut)

\* What a sample getProperties function returns for an index.
Apply(fn, index) ==
    IF fn = "id => ({name: id})" THEN {<<"name", index>>} ELSE {<<"kind", "cell">>}

\* The loop with unshift for push: the features come out in reverse.
RECURSIVE featuresLoop_unshift(_, _, _, _)
featuresLoop_unshift(hexs, getProps, i, features) ==
    IF i > Len(hexs) THEN features
    ELSE LET index == hexs[i]
             props == IF getProps.given THEN Apply(getProps.fn, index) ELSE {}
         IN  featuresLoop_unshift(hexs, getProps, i + 1,
                <<h3ToFeatureObject(index, [given |-> TRUE, object |-> props])>> \o features)

\* The loop of h3SetToFeatureCollection from index i on.
RECURSIVE featuresLoop(_, _, _, _)
featuresLoop(hexs, getProps, i, features) ==
    IF i > Len(hexs) THEN features
    ELSE LET index == hexs[i]
             props == IF getProps.given THEN Apply(getProps.fn, index) ELSE {}
         IN  featuresLoop(hexs, getProps, i + 1,
                Append(features, h3ToFeatureObject(index, [given |-> TRUE, object |-> props])))

h3SetToFeatureCollection(hexs, getProps) ==
    Return([type |-> FEATURE_COLLECTION, features |-> featuresLoop(hexs, getProps, 1, <<>>)],
           [k \in 1..Len(hexs) |-> "h3ToGeoBoundary"], <<>>, NullOut)

-----------------------------------------------------------------------------
(* Inputs of the h3...To... functions *)

SampleCells == {<<9, n>> : n \in CellNumbers}

\* Sample outlines: one loop, and a loop with a hole.
Outlines == {<<"loop">>, <<"outer", "hole">>}

PropertiesArgs == {NoProperties, [given |-> TRUE, object |-> {<<"color", "red">>}]}

GetPropertiesArgs ==
    {NoGetProperties}
    \cup {[given |-> TRUE, fn |-> f] : f \in {"id => ({name: id})", "id => ({kind: 'cell'})"}}

\* A call of one of the four functions to come: its arguments, and the
\* outlines the library answers for the set (at least one unless it is empty).
InitEmit ==
    /\ h3Index \in SampleCells
    /\ hexagons \in SeqsUpTo(SampleCells, MaxHexagons)
    /\ properties \in PropertiesArgs
    /\ getProperties \in GetPropertiesArgs
    /\ \E polygons \in SeqsUpTo(Outlines, MaxOutlines) :
        /\ (Len(polygons) = 0) = (hexagons = <<>>)
        /\ h3 = [polyfill |-> <<>>, geoToH3 |-> <<>>, h3SetToMultiPolygon |-> polygons]
    /\ feature = Feature(undefined, NoGeometry)
    /\ resolution = 9
    /\ options = NoOptions
    /\ called = "none"
    /\ ret = NotCalled

CallH3ToFeature ==
    /\ called' = "h3ToFeature"
    /\ ret' = h3ToFeature(h3Index, properties)
    /\ UNCHANGED <<feature, resolution, options, h3Index, hexagons, properties, getProperties, h3>>

CallH3SetToFeature ==
    /\ called' = "h3SetToFeature"
    /\ ret' = h3SetToFeature(hexagons, properties)
    /\ UNCHANGED <<feature, resolution, options, h3Index, hexagons, properties, getProperties, h3>>

CallH3SetToMultiPolygonFeature ==
    /\ called' = "h3SetToMultiPolygonFeature"
    /\ ret' = h3SetToMultiPolygonFeature(hexagons, properties)
    /\ UNCHANGED <<feature, resolution, options, h3Index, hexagons, properties, getProperties, h3>>

\* The call with a loop that takes the hexagons off the input with shift().
CallH3SetToFeatureCollection_shift ==
    /\ called' = "h3SetToFeatureCollection"
    /\ ret' = h3SetToFeatureCollection(hexagons, getProperties)
    /\ hexagons' = <<>>
    /\ UNCHANGED <<feature, resolution, options, h3Index, properties, getProperties, h3>>

CallH3SetToFeatureCollection ==
    /\ called' = "h3SetToFeatureCollection"
    /\ ret' = h3SetToFeatureCollection(hexagons, getProperties)
    /\ UNCHANGED <<feature, resolution, options, h3Index, hexagons, properties, getProperties, h3>>

-----------------------------------------------------------------------------
(* Specifications *)

NextFill == CallFeatureToH3Set

NextEmit ==
    \/ CallH3ToFeature
    \/ CallH3SetToFeature
    \/ CallH3SetToMultiPolygonFeature
    \/ CallH3SetToFeatureCollection

Init == InitFill \/ InitEmit

Next == NextFill \/ NextEmit

\* Calls of featureToH3Set.
SpecFill == InitFill /\ [][NextFill]_vars

\* Calls of the four functions that turn hexagons into GeoJSON.
SpecEmit == InitEmit /\ [][NextEmit]_vars

\* Calls of any of the five public functions.
Spec == Init /\ [][Next]_vars

-----------------------------------------------------------------------------
(* Properties of featureToH3Set, checked under SpecFill *)

Filled == called = "featureToH3Set"

NoDuplicates(s) == \A i, j \in DOMAIN s : i # j => s[i] # s[j]

Range(s) == {s[k] : k \in DOMAIN s}

RECURSIVE Concat(_)
Concat(arrays) ==
    IF arrays = <<>> THEN <<>> ELSE Head(arrays) \o Concat(Tail(arrays))

\* The index of the first occurrence of x in s.
FirstIndex(s, x) == CHOOSE i \in DOMAIN s : s[i] = x /\ \A j \in 1..(i - 1) : s[j] # x

\* v holds each element of s once, in the order of first occurrence in s.
FirstOccurrenceOrder(v, s) ==
    /\ NoDuplicates(v)
    /\ Range(v) = Range(s)
    /\ \A i, j \in DOMAIN v : i < j => FirstIndex(s, v[i]) < FirstIndex(s, v[j])

\* C2: the sequence featureToH3Set returns never holds the same cell twice,
\* whatever the input and whatever the library answered.
C2_NoDuplicateCells == (Filled /\ ~ret.threw) => NoDuplicates(ret.value)

\* A collection was filled and the results of its features together held a
\* cell more than once.
C2_Witness ==
    /\ Filled /\ ~ret.threw
    /\ feature.type = FEATURE_COLLECTION
    /\ Len(ret.arrays) > 1
    /\ ~NoDuplicates(Concat(ret.arrays))

\* C10: the result holds every distinct cell of the arrays handed to flatten
\* (one per polygon of a feature, one per feature of a collection) exactly
\* once, in the order of first occurrence in their concatenation.
C10_FirstOccurrenceOrder ==
    (Filled /\ ~ret.threw) => FirstOccurrenceOrder(ret.value, Concat(ret.arrays))

\* Two features of a collection both produced a cell, and the merged result
\* holds it once among other cells.
C10_Witness ==
    /\ Filled /\ ~ret.threw
    /\ feature.type = FEATURE_COLLECTION
    /\ Len(ret.arrays) = 2
    /\ Range(ret.arrays[1]) \cap Range(ret.arrays[2]) # {}
    /\ ret.arrays[1] # ret.arrays[2]
    /\ Len(ret.value) > 1

\* The polygons of a feature of a supported geometry, as a list.
PolygonList(f) ==
    IF f.geometry.type = POLYGON THEN <<f.geometry.coordinates>>
    ELSE f.geometry.coordinates

RECURSIVE SumOf(_, _)
SumOf(loop, c) == IF loop = <<>> THEN 0 ELSE Head(loop)[c] + SumOf(Tail(loop), c)

\* The cell at the mean of the vertices of the outer ring of a polygon.
VertexMeanCell(polygon, res) ==
    LET ring == polygon[1]
        lng == Divide(SumOf(ring, 1), Len(ring))
        lat == Divide(SumOf(ring, 2), Len(ring))
    IN  h3_geoToH3(lat, lng, res)

EnsureOutput == options.given /\ options.ensureOutput = "true"

\* What one polygon is to contribute: its fill, or when the fill is empty the
\* cell of its centroid with ensureOutput and nothing without.
Contribution(polygon) ==
    LET fill == h3_polyfill(polygon, resolution, "true") IN
    IF fill # <<>> THEN fill
    ELSE IF EnsureOutput THEN <<VertexMeanCell(polygon, resolution)>>
    ELSE <<>>

Count(s, x) == Cardinality({k \in DOMAIN s : s[k] = x})

\* C3: on a Feature, a polygon whose fill is empty contributes the one cell
\* of its outer-ring vertex mean when ensureOutput is true and nothing when it
\* is false or omitted; geoToH3 is asked for those polygons only; a Polygon
\* feature with an empty fill returns that one cell, or the empty set.
C3_DegeneratePolygonPolicy ==
    (Filled /\ feature.type = FEATURE /\ ~ret.threw) =>
        LET polygons == PolygonList(feature)
            empty == {k \in DOMAIN polygons :
                        h3_polyfill(polygons[k], resolution, "true") = <<>>}
        IN  /\ Len(ret.arrays) = Len(polygons)
            /\ \A k \in DOMAIN polygons : ret.arrays[k] = Contribution(polygons[k])
            /\ Count(ret.calls, "geoToH3") = IF EnsureOutput THEN Cardinality(empty) ELSE 0
            /\ (feature.geometry.type = POLYGON /\ empty # {}) =>
                    ret.value = IF EnsureOutput
                                THEN <<VertexMeanCell(polygons[1], resolution)>>
                                ELSE <<>>

\* A Polygon feature whose fill is empty was filled with ensureOutput and one
\* cell came back.
C3_Witness ==
    /\ Filled /\ ~ret.threw
    /\ feature.type = FEATURE /\ feature.geometry.type = POLYGON
    /\ EnsureOutput
    /\ h3.polyfill[feature.geometry.coordinates] = <<>>
    /\ Len(ret.value) = 1

\* C7: a FeatureCollection with an empty features list gives an empty set
\* and no error; one with no features field throws "No features found".
C7_EmptyVersusMissingFeatures ==
    (Filled /\ feature.type = FEATURE_COLLECTION) =>
        /\ ~feature.features.given => (ret.threw /\ ret.error = NoFeaturesFound)
        /\ (feature.features.given /\ feature.features.items = <<>>) =>
                (~ret.threw /\ ret.value = <<>>)

\* A collection with an empty features list was filled.
C7_Witness ==
    /\ Filled
    /\ feature.type = FEATURE_COLLECTION
    /\ feature.features.given /\ feature.features.items = <<>>
    /\ ~ret.threw /\ ret.value = <<>>

Supported(f) ==
    /\ f.type = FEATURE
    /\ f.geometry.given
    /\ f.geometry.type \in {POLYGON, MULTI_POLYGON}

\* The error an unsupported input is to raise: the type is looked at first.
ExpectedError(f) == IF f.type # FEATURE THEN UnhandledType ELSE UnhandledGeometryType

RECURSIVE PolygonsBefore(_, _)
PolygonsBefore(items, k) ==
    IF k <= 1 THEN 0
    ELSE Len(PolygonList(items[k - 1])) + PolygonsBefore(items, k - 1)

\* C8: an input of an unsupported type, or a Feature of a missing or
\* unsupported geometry, makes the call throw (the type error first), before
\* any polyfill for that feature; in a collection the first such feature makes
\* the whole call throw, with no cells returned.
C8_FailFast ==
    Filled =>
        IF feature.type = FEATURE_COLLECTION
        THEN feature.features.given =>
                LET items == feature.features.items
                    bad == {k \in DOMAIN items : ~Supported(items[k])}
                IN  IF bad = {} THEN ~ret.threw
                    ELSE LET k == CHOOSE b \in bad : \A c \in bad : b <= c IN
                         /\ ret.threw
                         /\ ret.error = ExpectedError(items[k])
                         /\ ret.value = <<>>
                         /\ Count(ret.calls, "polyfill") = PolygonsBefore(items, k)
        ELSE IF ~Supported(feature)
             THEN ret.threw /\ ret.error = ExpectedError(feature) /\ ret.calls = <<>>
             ELSE ~ret.threw

\* A collection whose second feature is unsupported was filled: the first
\* feature was polyfilled, then the call threw.
C8_Witness ==
    /\ Filled /\ ret.threw
    /\ feature.type = FEATURE_COLLECTION
    /\ Len(feature.features.items) = 2
    /\ Supported(feature.features.items[1])
    /\ ~Supported(feature.features.items[2])
    /\ Len(ret.calls) > 0

\* C1: the result for a collection is the ordered union of the results of
\* featureToH3Set for its features, at the resolution and with the options of
\* the call.
C1_CollectionFillsWithCallOptions ==
    (Filled /\ feature.type = FEATURE_COLLECTION /\ ~ret.threw) =>
        LET items == feature.features.items
            each == [k \in DOMAIN items |->
                        featureToH3Set(items[k], resolution, options).value]
        IN  FirstOccurrenceOrder(ret.value, Concat(each))

-----------------------------------------------------------------------------
(* Properties of the functions that turn hexagons into GeoJSON, checked      *)
(* under SpecEmit                                                            *)

GivenProperties == IF properties.given THEN properties.object ELSE {}

\* C4: h3SetToFeature returns a Feature with the given properties, whose
\* geometry is a MultiPolygon of all the outlines when the library answers
\* more than one, a Polygon of the one outline itself when it answers one, and
\* a Polygon with coordinates [] when it answers none (the empty set).
C4_UnwrapRule ==
    called = "h3SetToFeature" =>
        LET polygons == h3_h3SetToMultiPolygon(hexagons, "true")
            geometry == ret.value.geometry
        IN  /\ ~ret.threw
            /\ ret.value.type = FEATURE
            /\ ret.value.properties = GivenProperties
            /\ hexagons = <<>> => Len(polygons) = 0
            /\ Len(polygons) > 1 =>
                    (geometry.type = MULTI_POLYGON /\ geometry.coordinates = polygons)
            /\ Len(polygons) = 1 =>
                    (geometry.type = POLYGON /\ geometry.coordinates = polygons[1])
            /\ Len(polygons) = 0 =>
                    (geometry.type = POLYGON /\ geometry.coordinates = <<>>)

\* The library answered one outline and h3SetToFeature returned a Polygon.
C4_Witness ==
    /\ called = "h3SetToFeature"
    /\ Len(h3.h3SetToMultiPolygon) = 1
    /\ hexagons # <<>>
    /\ ret.value.geometry.type = POLYGON

\* C5: h3SetToMultiPolygonFeature always returns a MultiPolygon, with one
\* single-ring polygon per input hexagon in input order, the ring being the
\* boundary of that hexagon; it never asks the library to merge outlines.
C5_AlwaysMultiPolygon ==
    called = "h3SetToMultiPolygonFeature" =>
        LET geometry == ret.value.geometry IN
        /\ ~ret.threw
        /\ ret.value.type = FEATURE
        /\ geometry.type = MULTI_POLYGON
        /\ Len(geometry.coordinates) = Len(hexagons)
        /\ \A k \in DOMAIN hexagons :
                geometry.coordinates[k] = <<h3_h3ToGeoBoundary(hexagons[k], "true")>>
        /\ Count(ret.calls, "h3SetToMultiPolygon") = 0

\* A set of one hexagon was turned into a MultiPolygon of one polygon.
C5_Witness ==
    /\ called = "h3SetToMultiPolygonFeature"
    /\ Len(hexagons) = 1
    /\ ret.value.geometry.type = MULTI_POLYGON
    /\ Len(ret.value.geometry.coordinates) = 1

\* C6: h3SetToFeatureCollection returns a FeatureCollection with one Feature
\* per element of the input, in input order: the i-th has the i-th hexagon as
\* id, a Polygon geometry of one ring (the boundary of that hexagon) and the
\* properties getProperties returns for it, or {} without getProperties; so
\* the ids of the features are the input sequence.
C6_OneFeaturePerHexagon ==
    called = "h3SetToFeatureCollection" =>
        LET features == ret.value.features IN
        /\ ~ret.threw
        /\ ret.value.type = FEATURE_COLLECTION
        /\ Len(features) = Len(hexagons)
        /\ \A i \in DOMAIN hexagons :
            /\ features[i].type = FEATURE
            /\ features[i].id = hexagons[i]
            /\ features[i].geometry.type = POLYGON
            /\ features[i].geometry.coordinates = <<h3_h3ToGeoBoundary(hexagons[i], "true")>>
            /\ features[i].properties =
                    IF getProperties.given THEN Apply(getProperties.fn, hexagons[i]) ELSE {}
        /\ [i \in DOMAIN features |-> features[i].id] = hexagons

\* Hexagons that differ, one of them twice, were turned into a collection
\* with properties from getProperties.
C6_Witness ==
    /\ called = "h3SetToFeatureCollection"
    /\ getProperties.given
    /\ Len(hexagons) = 3
    /\ hexagons[1] # hexagons[2]
    /\ hexagons[1] = hexagons[3]
    /\ Len(ret.value.features) = 3

-----------------------------------------------------------------------------
(* Property of all five functions, checked under Spec *)

Inputs == <<feature, resolution, options, h3Index, hexagons, properties, getProperties>>

====
